---- MODULE Spec2Model ----
\* Model of monosodium (src/src/main.rs): the favorites archiver's
\* fetch -> hydrate -> dedupe -> download -> persist loop, its filesystem
\* effects and its HTTP requests, over several consecutive runs of the program
\* against the same remote favorites list and the same output directory.
EXTENDS Integers, Sequences, FiniteSets, TLC

\* ---------------------------------------------------------------- bounds
MaxFavs == 3      \* longest remote favorites list
PerPage == 2      \* posts the remote serves per favorites page
MaxHydrate == 2   \* longest page hydrated on its own (HydrateSpec)

\* ------------------------------------------------------------ data model
Md5s == {"a", "b"}
Exts == {"png"}

\* Option<T>: None is <<>>, Some(x) is <<x>>.
None == <<>>
Some(x) == <<x>>

MediaUrl(md5, ext) == <<"static", md5, ext>>

\* A decoded Post (only the fields the pipeline reads); file_path and
\* tags_path are absent from the API's JSON and decode to None.
RawPosts ==
    { [md5 |-> m, ext |-> e, url |-> u, file_path |-> None, tags_path |-> None] :
        m \in Md5s, e \in Exts, u \in {None} }
    \cup
    { [md5 |-> m, ext |-> e, url |-> Some(MediaUrl(m, e)),
       file_path |-> None, tags_path |-> None] : m \in Md5s, e \in Exts }

\* directory and directory.join("metadata")
Output == <<"out">>
MetadataDir == Output \o <<"metadata">>

\* format!("{}.{}", md5, ext) and format!("{}.json", md5)
FileName(stem, ext) == <<stem, ext>>

\* Path::join
Join(dir, file) == dir \o file

\* Posts as varied as hydration can see them: two extensions, and a field
\* that hydration does not read.
HydrateExts == Exts \cup {"jpg"}
HydratePosts ==
    { [md5 |-> m, ext |-> e, url |-> IF has THEN Some(MediaUrl(m, e)) ELSE None,
       rating |-> r, file_path |-> None, tags_path |-> None] :
        m \in Md5s, e \in HydrateExts, has \in BOOLEAN, r \in {"s", "e"} }

AllPaths ==
    { Join(Output, FileName(m, e)) : m \in Md5s, e \in HydrateExts }
    \cup { Join(MetadataDir, FileName(m, "json")) : m \in Md5s }

\* File contents. "absent": no file. "empty": created or truncated, nothing
\* written. "body": the complete body of a successful media response.
\* "errbody": the body of a non-success media response. "record": the
\* pretty-printed JSON of a post.
Absent == "absent"

\* The directory before the first run: each checksum either not archived, or
\* archived by an earlier use of the program (media file and metadata file).
OldDiskOf(archived, exts) ==
    [p \in AllPaths |->
        IF p[Len(p) - 1] \notin archived THEN Absent
        ELSE IF p[Len(p)] = "json" THEN "record"
        ELSE IF p[Len(p)] \in exts THEN "body" ELSE Absent]
OldDisk(archived) == OldDiskOf(archived, Exts)

\* ApiResponse::hydrate: both derived paths of every post of the page.
HydratePostFixedExt(post, output, metadata_dir) ==
    [post EXCEPT
        !.file_path = Some(Join(output, FileName(post.md5, "png"))),
        !.tags_path = Some(Join(metadata_dir, FileName(post.md5, "json")))]
HydratePost(post, output, metadata_dir) ==
    [post EXCEPT
        !.file_path = Some(Join(output, FileName(post.md5, post.ext))),
        !.tags_path = Some(Join(metadata_dir, FileName(post.md5, "json")))]

hydrate(ps, output, metadata_dir) ==
    [i \in 1..Len(ps) |-> HydratePost(ps[i], output, metadata_dir)]

\* Path::exists
ExistsNever(d, path) == FALSE
Exists(d, path) == d[path] # Absent

\* The closure of the filter that builds downloadable_posts.
IsDownloadableNoExists(x, d) ==
    /\ x.url # None
    /\ x.file_path # None
IsDownloadableNoUrl(x, d) ==
    /\ x.file_path # None
    /\ ~Exists(d, x.file_path[1])
IsDownloadableInverted(x, d) ==
    /\ x.url # None
    /\ x.file_path # None
    /\ Exists(d, x.file_path[1])
IsDownloadable(x, d) ==
    /\ x.url # None
    /\ x.file_path # None
    /\ ~Exists(d, x.file_path[1])

\* response.posts.iter().filter(..).collect()
DownloadableAll(ps, d) == ps
DownloadablePosts(ps, d) == SelectSeq(ps, LAMBDA x : IsDownloadable(x, d))

\* ---------------------------------------------------------------- remote
\* The remote serves the favorites list favs in pages of PerPage posts; a
\* page past the end of the list is empty.
Min(a, b) == IF a < b THEN a ELSE b
RemotePage(fs, n) == SubSeq(fs, (n - 1) * PerPage + 1, Min(n * PerPage, Len(fs)))

\* What client.get(url).send() can come back with: no response at all, or a
\* response with a status and a body that decodes as an ApiResponse or not.
\* A non-success response carries any body: undecodable, an empty list of
\* posts, or the page itself.
ConnErr == [kind |-> "conn_err", status |-> "none", decodes |-> FALSE, posts |-> <<>>]
NoResp == [kind |-> "none", status |-> "none", decodes |-> FALSE, posts |-> <<>>]
Http(st, dec, ps) == [kind |-> "http", status |-> st, decodes |-> dec, posts |-> ps]
StatusOk == "2xx"
StatusErr == "5xx"
PageResponses(fs, n) ==
    { ConnErr,
      Http(StatusOk, TRUE, RemotePage(fs, n)),
      Http(StatusOk, FALSE, <<>>),
      Http(StatusErr, FALSE, <<>>),
      Http(StatusErr, TRUE, <<>>),
      Http(StatusErr, TRUE, RemotePage(fs, n)) }

IsSuccess(st) == st = StatusOk

\* client.get(&url).send().await?.json::<ApiResponse>().await? : the two `?`
\* return from main when send() fails or the body does not decode. The
\* status is not looked at.
PageRequestFails(r) == r.kind = "conn_err" \/ ~r.decodes

\* Where main goes when the page request failed: `?` returns the error.
OnPageErrorSkip(pg) == [pc |-> "fetch", page |-> pg + 1]
OnPageError(pg) == [pc |-> "aborted", page |-> pg]

\* response.posts.is_empty() => break
BreaksWhenNothingToDo(ps, d) == DownloadablePosts(ps, d) = <<>>
Breaks(ps, d) == ps = <<>>

\* ---------------------------------------------------------- media fetch
\* Outcomes of reqwest::get(&url) followed by response.bytes() and
\* output.write_all(): the file content each leaves in the created file.
\* "get_err": reqwest::get is Err(e), or the body cannot be read (bytes() is
\* not Ok): nothing is written. "bad_status": Ok(response) with a non-success
\* status: its body is written like any other. "ok": a success response.
GetOutcomes == {"get_err", "bad_status", "ok"}
GetFailures == {"get_err", "bad_status"}
ContentAfterGet(o) ==
    CASE o = "get_err" -> "empty"
      [] o = "bad_status" -> "errbody"
      [] o = "ok" -> "body"

\* archive_post's return value, and the `?` applied to it in main.
ArchivePostPropagates(o) == IF o \in {"get_err", "create_failed"} THEN "Err" ELSE "Ok"
ArchivePostResult(o) == "Ok"

MetaOutcomes == {"create_failed", "ok"}
ContentAfterMeta(o) == "record"

\* ----------------------------------------------------------------- state
VARIABLES
    favs,          \* the remote favorites list (fixed)
    disk,          \* the output directory: path -> content
    disk0,         \* the output directory when the current run started
    prev,          \* how the run before this one went (done: it reached the end of
                   \* main; pagesOk: each of its page requests got the page, status 2xx)
    pc,            \* where main is
    page,          \* main's page counter
    resp,          \* the response to this turn's favorites request
    posts,         \* response.posts, hydrated
    downloadable,  \* downloadable_posts
    idx,           \* position of the stream in downloadable_posts
    attempted,     \* the posts of this page handed to archive_post, in order
    outcome,       \* how the media and the metadata step of the last item went
    pageReqs,      \* page numbers requested in this run, in order
    gets,          \* media URLs requested in this run
    creates,       \* paths File::create created or truncated in this run
    getFailed,     \* posts whose media GET failed in this run
    pageFault,     \* some page request of this run did not get the page with status 2xx
    itemFault,     \* some media request or local file operation of this run failed
    printed,       \* the completion message was printed in this run
    paused         \* ms this run has slept since its last HTTP request

vars == <<favs, disk, disk0, prev, pc, page, resp, posts, downloadable, idx,
          attempted, outcome, pageReqs, gets, creates, getFailed, pageFault, itemFault,
          printed, paused>>

RECURSIVE SeqsUpTo(_, _)
SeqsUpTo(S, n) ==
    IF n = 0 THEN {<<>>}
    ELSE LET shorter == SeqsUpTo(S, n - 1)
         IN shorter \cup { Append(s, x) : s \in {t \in shorter : Len(t) = n - 1}, x \in S }

NoOutcome == [media |-> "none", meta |-> "none"]
NoRun == [done |-> FALSE, pagesOk |-> FALSE]

Init ==
    /\ favs \in SeqsUpTo(RawPosts, MaxFavs)
    /\ \E archived \in SUBSET Md5s : disk = OldDisk(archived)
    /\ disk0 = disk
    /\ prev = NoRun
    /\ pc = "fetch"
    /\ page = 1
    /\ resp = NoResp
    /\ posts = <<>>
    /\ downloadable = <<>>
    /\ idx = 1
    /\ attempted = <<>>
    /\ outcome = NoOutcome
    /\ pageReqs = <<>>
    /\ gets = {}
    /\ creates = {}
    /\ getFailed = {}
    /\ pageFault = FALSE
    /\ itemFault = FALSE
    /\ printed = FALSE
    /\ paused = 0

\* No run asks for a page past this one: the list has at most MaxFavs posts.
MaxPage == MaxFavs + 1

\* One turn of the loop up to the download stream: request the page, leave on
\* error, break on an empty page, else hydrate, bump the counter and filter.
\* page += 1
NextPageSame(pg) == pg
NextPage(pg) == pg + 1

\* The turn of the loop whose page request came back with r.
FetchPageGot(r) ==
    /\ pc = "fetch"
    /\ page <= MaxPage
    /\ resp' = r
    /\ pageReqs' = Append(pageReqs, page)
    /\ paused' = 0
    /\ pageFault' = (pageFault \/ r.kind # "http" \/ ~r.decodes \/ ~IsSuccess(r.status))
    /\ IF PageRequestFails(r)
       THEN /\ pc' = OnPageError(page).pc
            /\ page' = OnPageError(page).page
            /\ UNCHANGED <<posts, downloadable, idx, attempted, outcome, printed>>
       ELSE IF Breaks(r.posts, disk)
       THEN /\ pc' = "done"
            /\ printed' = TRUE
            /\ posts' = r.posts
            /\ UNCHANGED <<page, downloadable, idx, attempted, outcome>>
       ELSE LET h == hydrate(r.posts, Output, MetadataDir)
                dl == DownloadablePosts(h, disk)
            IN /\ posts' = h
               /\ page' = NextPage(page)
               /\ downloadable' = dl
               /\ idx' = 1
               /\ attempted' = <<>>
               /\ outcome' = NoOutcome
               /\ pc' = IF dl = <<>> THEN "page_sleep" ELSE "create"
               /\ UNCHANGED printed
    /\ UNCHANGED <<favs, disk, disk0, prev, gets, creates, getFailed, itemFault>>

FetchPage == \E r \in PageResponses(favs, page) : FetchPageGot(r)

\* `archive_post(post).await?` in main: on Ok(()) main goes on to
\* archive_metadata, on Err it returns.
AfterArchivePostAbortsOnFailure(o) == IF o \in {"ok", "no_url"} THEN "meta" ELSE "aborted"
AfterArchivePost(o) == IF ArchivePostResult(o) = "Ok" THEN "meta" ELSE "aborted"

\* match File::create(..): Ok(output) goes on to the GET, Err(e) is logged
\* and archive_post ends.
AfterCreateAlwaysGet(ok) == "get"
AfterCreate(ok) == IF ok THEN "get" ELSE AfterArchivePost("create_failed")

\* What follows the match on reqwest::get's result: the sleep, in both arms.
AfterGetSleepOnSuccess(o) == IF o = "ok" THEN "item_sleep" ELSE AfterArchivePost(o)
AfterGet(o) == "item_sleep"

\* The two pauses: thread::sleep(Duration::from_millis(1500)).
ItemPauseMs == 1500
PagePauseMs == 1500

\* stream.next()
StreamNextSkip(i) == i + 2
StreamNext(i) == i + 1

\* archive_post up to the GET: File::create on the media path.
CreateMedia ==
    /\ pc = "create"
    /\ LET post == downloadable[idx]
           path == post.file_path[1]
       IN /\ attempted' = Append(attempted, post)
          /\ IF post.url = None
             THEN /\ outcome' = [media |-> "no_url", meta |-> "none"]
                  /\ pc' = AfterArchivePost("no_url")
                  /\ UNCHANGED <<disk, creates, itemFault>>
             ELSE \E ok \in BOOLEAN :
                   IF ok
                   THEN /\ disk' = [disk EXCEPT ![path] = "empty"]
                        /\ creates' = creates \cup {path}
                        /\ outcome' = [media |-> "created", meta |-> "none"]
                        /\ pc' = AfterCreate(TRUE)
                        /\ UNCHANGED itemFault
                   ELSE /\ outcome' = [media |-> "create_failed", meta |-> "none"]
                        /\ pc' = AfterCreate(FALSE)
                        /\ itemFault' = TRUE
                        /\ UNCHANGED <<disk, creates>>
    /\ UNCHANGED <<favs, disk0, prev, page, resp, posts, downloadable, idx,
                   pageReqs, gets, getFailed, pageFault, printed, paused>>

\* reqwest::get(&url), response.bytes(), output.write_all(&bytes).
GetMedia ==
    /\ pc = "get"
    /\ LET post == downloadable[idx]
           path == post.file_path[1]
       IN \E o \in GetOutcomes :
            /\ gets' = gets \cup {post.url[1]}
            /\ disk' = [disk EXCEPT ![path] = ContentAfterGet(o)]
            /\ outcome' = [outcome EXCEPT !.media = o]
            /\ getFailed' = IF o \in GetFailures THEN getFailed \cup {post} ELSE getFailed
            /\ itemFault' = (itemFault \/ o # "ok")
            /\ pc' = AfterGet(o)
    /\ paused' = 0
    /\ UNCHANGED <<favs, disk0, prev, page, resp, posts, downloadable, idx,
                   attempted, pageReqs, creates, pageFault, printed>>

\* The 1500 ms pause that ends archive_post, then its Ok(()) and main's `?`.
ItemSleep ==
    /\ pc = "item_sleep"
    /\ pc' = AfterArchivePost(outcome.media)
    /\ paused' = paused + ItemPauseMs
    /\ UNCHANGED <<favs, disk, disk0, prev, page, resp, posts, downloadable, idx,
                   attempted, outcome, pageReqs, gets, creates, getFailed, pageFault,
                   itemFault, printed>>

\* archive_metadata(post), then the stream's next item or the end of the page.
ArchiveMetadata ==
    /\ pc = "meta"
    /\ LET post == downloadable[idx]
           path == post.tags_path[1]
       IN \E o \in MetaOutcomes :
            /\ outcome' = [outcome EXCEPT !.meta = o]
            /\ itemFault' = (itemFault \/ o # "ok")
            /\ IF o = "create_failed"
               THEN UNCHANGED <<disk, creates>>
               ELSE /\ disk' = [disk EXCEPT ![path] = ContentAfterMeta(o)]
                    /\ creates' = creates \cup {path}
    /\ idx' = StreamNext(idx)
    /\ pc' = IF StreamNext(idx) <= Len(downloadable) THEN "create" ELSE "page_sleep"
    /\ UNCHANGED <<favs, disk0, prev, page, resp, posts, downloadable,
                   attempted, pageReqs, gets, getFailed, pageFault, printed, paused>>

\* The 1500 ms pause between pages, then the loop's next turn: the locals of
\* the turn that ends (response, downloadable_posts, stream) are dropped.
PageSleep ==
    /\ pc = "page_sleep"
    /\ pc' = "fetch"
    /\ resp' = NoResp
    /\ posts' = <<>>
    /\ downloadable' = <<>>
    /\ idx' = 1
    /\ attempted' = <<>>
    /\ outcome' = NoOutcome
    /\ paused' = paused + PagePauseMs
    /\ UNCHANGED <<favs, disk, disk0, prev, page, pageReqs, gets, creates, getFailed,
                   pageFault, itemFault, printed>>

\* The program is started again on the same directory and the same remote.
StartRun ==
    /\ pc \in {"done", "aborted"}
    /\ prev' = [done |-> pc = "done", pagesOk |-> ~pageFault]
    /\ disk0' = disk
    /\ pc' = "fetch"
    /\ page' = 1
    /\ resp' = NoResp
    /\ posts' = <<>>
    /\ downloadable' = <<>>
    /\ idx' = 1
    /\ attempted' = <<>>
    /\ outcome' = NoOutcome
    /\ pageReqs' = <<>>
    /\ gets' = {}
    /\ creates' = {}
    /\ getFailed' = {}
    /\ pageFault' = FALSE
    /\ itemFault' = FALSE
    /\ printed' = FALSE
    /\ paused' = 0
    /\ UNCHANGED <<favs, disk>>

Next ==
    \/ FetchPage
    \/ CreateMedia
    \/ GetMedia
    \/ ItemSleep
    \/ ArchiveMetadata
    \/ PageSleep
    \/ StartRun

Spec == Init /\ [][Next]_vars

\* ------------------------------------------------------- one run, fair
\* One run in which every favorites request is answered with status 2xx and
\* the page the remote holds; media requests and local file operations go
\* any way they can. The process keeps running: main is one task that awaits
\* each step in turn, so a step that can be taken is taken.
FetchPageOk == FetchPageGot(Http(StatusOk, TRUE, RemotePage(favs, page)))

LiveNext ==
    \/ FetchPageOk
    \/ CreateMedia
    \/ GetMedia
    \/ ItemSleep
    \/ ArchiveMetadata
    \/ PageSleep

LiveSpec == Init /\ [][LiveNext]_vars /\ WF_vars(LiveNext)

\* ------------------------------------------------- hydration on its own
\* The two statements of main that hydrate a decoded page and filter it,
\* applied to pages of HydratePosts over every initial directory.
HydrateInit ==
    /\ favs \in SeqsUpTo(HydratePosts, MaxHydrate)
    /\ \E archived \in SUBSET Md5s : disk = OldDiskOf(archived, HydrateExts)
    /\ disk0 = disk
    /\ prev = NoRun
    /\ pc = "h_decoded"
    /\ page = 1
    /\ resp = Http(StatusOk, TRUE, favs)
    /\ posts = resp.posts
    /\ downloadable = <<>>
    /\ idx = 1
    /\ attempted = <<>>
    /\ outcome = NoOutcome
    /\ pageReqs = <<1>>
    /\ gets = {}
    /\ creates = {}
    /\ getFailed = {}
    /\ pageFault = FALSE
    /\ itemFault = FALSE
    /\ printed = FALSE
    /\ paused = 0

\* response.hydrate(directory, &metadata_dir)
HydratePage ==
    /\ pc = "h_decoded"
    /\ posts' = hydrate(posts, Output, MetadataDir)
    /\ pc' = "h_hydrated"
    /\ UNCHANGED <<favs, disk, disk0, prev, page, resp, downloadable, idx, attempted,
                   outcome, pageReqs, gets, creates, getFailed, pageFault, itemFault,
                   printed, paused>>

\* let downloadable_posts = response.posts.iter().filter(..).collect()
FilterPage ==
    /\ pc = "h_hydrated"
    /\ downloadable' = DownloadablePosts(posts, disk)
    /\ pc' = "h_filtered"
    /\ UNCHANGED <<favs, disk, disk0, prev, page, resp, posts, idx, attempted,
                   outcome, pageReqs, gets, creates, getFailed, pageFault, itemFault,
                   printed, paused>>

HydrateNext == HydratePage \/ FilterPage

HydrateSpec == HydrateInit /\ [][HydrateNext]_vars

\* ---------------------------------------------------------------- claims
\* The paths the specification gives an item: <output_dir>/<checksum>.<ext>
\* and <output_dir>/metadata/<checksum>.json.
SpecMediaPath(p) == <<"out", p.md5, p.ext>>
SpecTagsPath(p) == <<"out", "metadata", p.md5, "json">>

Last(q) == q[Len(q)]
InSeq(x, q) == \E j \in 1..Len(q) : q[j] = x
FavsWithUrl == { favs[i] : i \in { k \in 1..Len(favs) : favs[k].url # None } }
FavsWithoutUrl == { favs[i] : i \in { k \in 1..Len(favs) : favs[k].url = None } }
MediaFiles(d) == { p \in AllPaths : Len(p) = 3 /\ d[p] # Absent }
MetadataFiles(d) == { p \in AllPaths : Len(p) = 4 /\ d[p] # Absent }
EmptyDisk == [p \in AllPaths |-> Absent]

\* Every item of the remote list that carries a URL had its media file on
\* disk when this run started.
ArchivedAtStart == \A p \in FavsWithUrl : disk0[SpecMediaPath(p)] # Absent

\* C1 as stated: a run that follows a completed run, both served the unchanged
\* list (every page request answered with the page, status 2xx), requests no
\* media and creates, truncates or rewrites no file.
C1_SecondRunIdle ==
    (prev.done /\ prev.pagesOk /\ ~pageFault) => (gets = {} /\ creates = {})

\* C1 amended: a run that starts with the media file of every URL-carrying
\* item of the remote list already on disk requests no media and creates,
\* truncates or rewrites no media file and no metadata file.
C1_ArchivedRunIdle == ArchivedAtStart => (gets = {} /\ creates = {})

\* A second run, after a completed one, has walked the list (two items with
\* URLs among them) to its end and found everything archived.
C1_Witness ==
    /\ prev.done /\ prev.pagesOk /\ ~pageFault
    /\ pc = "done"
    /\ ArchivedAtStart
    /\ Cardinality(FavsWithUrl) = 2
    /\ Len(pageReqs) >= 2

\* C2: right after a page is filtered, an item of the page is in
\* downloadable_posts iff it has a media URL and no file exists at
\* <output_dir>/<checksum>.<ext>; nothing else is in downloadable_posts.
JustFiltered == pc \in {"create", "page_sleep"} /\ attempted = <<>>
C2_DedupeCorrect ==
    JustFiltered =>
        /\ \A i \in 1..Len(posts) :
              InSeq(posts[i], downloadable)
                  <=> (posts[i].url # None /\ disk[SpecMediaPath(posts[i])] = Absent)
        /\ \A j \in 1..Len(downloadable) : InSeq(downloadable[j], posts)

\* A page with one item whose file is already on disk (excluded although its
\* URL is present) and one that is eligible.
C2_Witness ==
    /\ JustFiltered
    /\ Len(downloadable) = 1
    /\ \E i \in 1..Len(posts) :
          /\ posts[i].url # None
          /\ disk[SpecMediaPath(posts[i])] # Absent
          /\ ~InSeq(posts[i], downloadable)

\* C3: the completion message goes with DONE, DONE is reached only on a
\* decoded page with zero items, and while the page of the current turn is a
\* non-empty one the run has not halted (neither DONE nor aborted).
GotPage == resp.kind = "http" /\ resp.decodes
C3_HaltsOnlyOnEmptyPage ==
    /\ printed <=> pc = "done"
    /\ pc = "done" => (GotPage /\ resp.posts = <<>>)
    /\ (GotPage /\ resp.posts # <<>>) => pc \notin {"done", "aborted"}

\* DONE after two requests, the first page's download having failed.
C3_Witness ==
    /\ pc = "done"
    /\ printed
    /\ Len(pageReqs) = 2
    /\ getFailed # {}
    /\ itemFault

\* C4: once the request for page n has failed (no response, or a body that
\* does not decode) the run is aborted, nothing was printed, the pages
\* requested are exactly 1..n, and the failing step and every later step of
\* the run leave the files and the set of media requests as they were.
PageFailed == resp.kind = "conn_err" \/ (resp.kind = "http" /\ ~resp.decodes)
C4_FailFast ==
    /\ [](PageFailed =>
            /\ pc = "aborted"
            /\ ~printed
            /\ pageReqs = [i \in 1..Len(pageReqs) |-> i]
            /\ Last(pageReqs) = page)
    /\ [][(PageFailed' /\ pc # "aborted") =>
            (disk' = disk /\ gets' = gets /\ creates' = creates)]_vars
    /\ [][(pc = "aborted" /\ pc' = "aborted") => UNCHANGED vars]_vars

\* Page 2 failed after page 1 wrote files.
C4_Witness ==
    /\ PageFailed
    /\ pc = "aborted"
    /\ pageReqs = <<1, 2>>
    /\ creates # {}
    /\ gets # {}

\* C5 as stated: whenever this turn's page response has a non-success
\* status, the run is aborted.
C5_NonSuccessIsFatal ==
    (resp.kind = "http" /\ resp.status # "2xx") => pc = "aborted"

\* C6 as stated: when the GET of the item just processed failed or came back
\* non-success, its media path holds a complete body or no file.
C6_NoWrongFile ==
    (pc \in {"item_sleep", "meta"} /\ outcome.media \in {"get_err", "bad_status"})
        => disk[SpecMediaPath(downloadable[idx])] \in {Absent, "body"}

\* C7 as stated: at the end of a run, every item whose GET failed in it has
\* no file at its media path, so the next run's filter takes it again.
C7_FailedIsRetried ==
    pc \in {"done", "aborted"} =>
        \A p \in getFailed :
            /\ disk[SpecMediaPath(p)] = Absent
            /\ IsDownloadable(p, disk)

\* C8 as stated: no file is created or overwritten during the run at the
\* metadata path of an item whose GET failed.
C8_NoMetadataAfterFailedGet ==
    \A p \in getFailed : SpecTagsPath(p) \notin creates

\* C9: the run is aborted only by a failed page request; the items handed to
\* archive_post are, at every point, the eligible items of the page up to the
\* stream's position, all of them by the end of the page, whatever failed;
\* and the page asked for next is the one after the last one requested.
C9_ItemErrorsSwallowed ==
    /\ pc = "aborted" => PageFailed
    /\ pc = "create" => attempted = SubSeq(downloadable, 1, idx - 1)
    /\ pc \in {"get", "item_sleep", "meta"} => attempted = SubSeq(downloadable, 1, idx)
    /\ pc = "page_sleep" => attempted = downloadable
    /\ (pc = "fetch" /\ pageReqs # <<>>) => page = Last(pageReqs) + 1

\* The first page's first item failed its GET and its metadata file could
\* not be created; the second, another item, was attempted all the same.
C9_Witness ==
    /\ pc = "page_sleep"
    /\ pageReqs = <<1>>
    /\ Len(attempted) = 2
    /\ attempted[1] # attempted[2]
    /\ attempted[1] \in getFailed
    /\ SpecTagsPath(attempted[1]) \notin creates
    /\ attempted[2] \notin getFailed

\* C10: a run that started on an empty directory and reached DONE with no
\* request and no file operation failing leaves exactly the media files
\* <checksum>.<ext> and the metadata files <checksum>.json of the items that
\* carry a URL.
NoFault == ~pageFault /\ ~itemFault
C10_EndToEnd ==
    (pc = "done" /\ NoFault /\ disk0 = EmptyDisk) =>
        /\ MediaFiles(disk) = { SpecMediaPath(p) : p \in FavsWithUrl }
        /\ MetadataFiles(disk) = { SpecTagsPath(p) : p \in FavsWithUrl }
        /\ \A p \in FavsWithUrl : disk[SpecMediaPath(p)] = "body"

\* The scenario of the specification: one item with a URL, one deleted item
\* with another checksum, then the empty page.
C10_Witness ==
    /\ pc = "done" /\ NoFault /\ disk0 = EmptyDisk
    /\ Len(favs) = 2
    /\ Cardinality(FavsWithUrl) = 1
    /\ \E q \in FavsWithoutUrl : \A p \in FavsWithUrl : q.md5 # p.md5
    /\ Cardinality(MediaFiles(disk)) = 1
    /\ Cardinality(MetadataFiles(disk)) = 1

\* C11 as stated: an item handed to archive_post whose media path was
\* already created in this run (by an item with the same checksum and
\* extension) is skipped: its step creates no file and leads to no GET.
C11_SharedChecksumOnce ==
    [][(pc = "create" /\ SpecMediaPath(downloadable[idx]) \in creates)
          => (pc' # "get" /\ disk' = disk /\ gets' = gets)]_vars

\* C12: whenever the last item's media URL was requested (whatever came
\* back), the run has slept exactly one item pause since that request by the
\* time it writes the metadata, takes the next item or ends the page; and a
\* page request is never issued less than one pause after the previous
\* request.
C12_PauseAfterGet ==
    /\ (pc \in {"meta", "create", "page_sleep"} /\ outcome.media \in GetOutcomes)
          => paused = ItemPauseMs
    /\ (pc = "fetch" /\ pageReqs # <<>>) => paused >= PagePauseMs
    /\ ItemPauseMs = 1500

\* The first item's GET failed; the second item is up, 1500 ms later.
C12_Witness ==
    /\ pc = "create"
    /\ idx = 2
    /\ outcome.media = "get_err"
    /\ paused = 1500

\* C13 as stated: the metadata path of an item of the list that has no URL,
\* or whose media file was on disk when the run started (so the filter
\* excludes it), is not created or truncated in the run.
Skipped(p) == p.url = None \/ disk0[SpecMediaPath(p)] # Absent
FavItems == { favs[i] : i \in 1..Len(favs) }
C13_NoMetadataForSkipped ==
    \A p \in FavItems : Skipped(p) => SpecTagsPath(p) \notin creates

\* C13 amended: the same, for an item that shares its checksum with no item
\* of the list that has a URL and no media file at the start of the run.
EligibleSibling(p) ==
    \E q \in FavItems :
        q.md5 = p.md5 /\ q.url # None /\ disk0[SpecMediaPath(q)] = Absent
C13_NoMetadataForSkippedAlone ==
    \A p \in FavItems :
        (Skipped(p) /\ ~EligibleSibling(p)) => SpecTagsPath(p) \notin creates

\* A finished run that downloaded one item and left alone the metadata of
\* another, whose media file was there from the start.
C13_Witness ==
    /\ pc = "done"
    /\ gets # {}
    /\ creates # {}
    /\ \E p \in FavsWithUrl :
          /\ disk0[SpecMediaPath(p)] # Absent
          /\ ~EligibleSibling(p)
          /\ SpecTagsPath(p) \notin creates

\* C14: the step in which File::create fails on the media path issues no
\* GET and touches no file, the item's turn ends without a GET, and the
\* stream moves on to the next item (or the end of the page), not back.
C14_CreateFailureSkips ==
    /\ [][(pc = "create" /\ outcome'.media = "create_failed")
            => (pc' = "meta" /\ gets' = gets /\ disk' = disk /\ idx' = idx)]_vars
    /\ [][(pc = "meta" /\ outcome.media = "create_failed")
            => (idx' = idx + 1 /\ gets' = gets /\ pc' \in {"create", "page_sleep"})]_vars

\* The first item's media file could not be created, nothing was requested,
\* and the second item is up.
C14_Witness ==
    /\ pc = "create"
    /\ idx = 2
    /\ pageReqs = <<1>>
    /\ outcome.media = "create_failed"
    /\ gets = {}

\* C15 (under HydrateSpec): after hydration every item of the page is the
\* decoded item with file_path = <output_dir>/<checksum>.<ext> and tags_path =
\* <output_dir>/metadata/<checksum>.json, whatever its other fields and its
\* position; so every item has both paths when the filter reads them, and so
\* has every item the filter hands to the download step.
C15_PathDeterminism ==
    /\ pc \in {"h_hydrated", "h_filtered"} =>
          /\ Len(posts) = Len(resp.posts)
          /\ \A i \in 1..Len(posts) :
                posts[i] = [resp.posts[i] EXCEPT
                               !.file_path = << <<"out", resp.posts[i].md5, resp.posts[i].ext>> >>,
                               !.tags_path = << <<"out", "metadata", resp.posts[i].md5, "json">> >>]
    /\ pc = "h_filtered" =>
          \A j \in 1..Len(downloadable) :
              /\ downloadable[j].file_path = << SpecMediaPath(downloadable[j]) >>
              /\ downloadable[j].tags_path = << SpecTagsPath(downloadable[j]) >>

\* A filtered page of two items with one checksum, two extensions and two
\* ratings, both handed to the download step.
C15_Witness ==
    /\ pc = "h_filtered"
    /\ Len(posts) = 2
    /\ Len(downloadable) = 2
    /\ posts[1].md5 = posts[2].md5
    /\ posts[1].ext # posts[2].ext
    /\ posts[1].rating # posts[2].rating
    /\ posts[1].tags_path = posts[2].tags_path
    /\ posts[1].file_path # posts[2].file_path

\* C16: the page numbers requested in a run are 1, 2, 3, ... in this order,
\* each once; the counter always names the page after the last one the run
\* got; the loop turns to its next page request only from the pause between
\* pages, which it reaches with every item of downloadable_posts handed to
\* archive_post and the last one's metadata step over; and a page request
\* that is not the first of its run comes at least one page pause after the
\* run's previous request.
C16_PageOrdering ==
    /\ [](/\ \A i \in 1..Len(pageReqs) : pageReqs[i] = i
          /\ (pc = "fetch" /\ pageReqs # <<>>) =>
                (page = Len(pageReqs) + 1 /\ paused >= PagePauseMs)
          /\ pc = "page_sleep" =>
                /\ attempted = downloadable
                /\ idx = Len(downloadable) + 1
                /\ downloadable # <<>> => outcome.meta \in MetaOutcomes)
    /\ [][(pc' = "fetch" /\ pageReqs' # <<>>) => pc \in {"fetch", "page_sleep"}]_vars
    /\ [][(pageReqs' # pageReqs /\ pageReqs' # <<>>) =>
             (pc = "fetch" /\ pageReqs' = Append(pageReqs, Len(pageReqs) + 1))]_vars

\* Three pages were requested, 1, 2 and 3, the third one after the items of
\* the first two were downloaded.
C16_Witness ==
    /\ pc = "done"
    /\ pageReqs = <<1, 2, 3>>
    /\ Cardinality(gets) = 2
    /\ paused = 0

\* C17: the stream hands the items of downloadable_posts to archive_post one
\* at a time, in their order, none skipped; an item's metadata is written
\* only when its media step is over, the next item's media step starts only
\* when the metadata step of the one before is over, and a step that issues
\* a media request or writes a file does so for the current item alone.
Prefix(s, n) == SubSeq(s, 1, n)
MediaStepOver == {"create_failed", "no_url"} \cup GetOutcomes
C17_ItemOrdering ==
    /\ [](/\ pc \in {"create", "get", "item_sleep", "meta"} =>
                idx \in 1..Len(downloadable)
          /\ pc = "create" =>
                /\ attempted = Prefix(downloadable, idx - 1)
                /\ idx > 1 => (outcome.media \in MediaStepOver /\ outcome.meta \in MetaOutcomes)
          /\ pc \in {"get", "item_sleep"} =>
                /\ attempted = Prefix(downloadable, idx)
                /\ outcome.meta = "none"
          /\ pc = "meta" =>
                /\ attempted = Prefix(downloadable, idx)
                /\ outcome.media \in MediaStepOver
                /\ outcome.meta = "none"
          /\ pc = "page_sleep" => attempted = downloadable)
    /\ [][(gets' # gets /\ gets' # {}) =>
             (pc = "get" /\ gets' = gets \cup {downloadable[idx].url[1]})]_vars
    /\ [][(disk' # disk) =>
             /\ pc \in {"create", "get", "meta"}
             /\ \E f \in {SpecMediaPath(downloadable[idx]), SpecTagsPath(downloadable[idx])} :
                    \A q \in AllPaths \ {f} : disk'[q] = disk[q]]_vars

\* The second item of a page is in its media request; the first one's media
\* and metadata steps are over.
C17_Witness ==
    /\ pc = "get"
    /\ idx = 2
    /\ Len(downloadable) = 2
    /\ Len(attempted) = 2
    /\ downloadable[1] # downloadable[2]
    /\ gets # {}

\* C18 (under LiveSpec): a run whose page requests all get their page with
\* status 2xx, against a remote whose list ends, reaches the end of main and
\* prints the completion message, whatever happens to its media requests
\* and file operations; it never leaves main early.
C18_ReachesDone ==
    /\ <>(pc = "done" /\ printed)
    /\ [](pc # "aborted")

\* The run is done after three page requests, with a failed media request
\* and a media file that could not be created behind it.
C18_Witness ==
    /\ pc = "done"
    /\ printed
    /\ pageReqs = <<1, 2, 3>>
    /\ getFailed # {}
    /\ \E p \in FavsWithUrl : disk[SpecMediaPath(p)] = Absent

\* C19 as stated: every metadata file this run has written is the metadata
\* file of an item of the list whose media file is on disk.
C19_MetadataImpliesMedia ==
    \A f \in creates \cap MetadataFiles(disk) :
        \E p \in FavItems :
            /\ SpecTagsPath(p) = f
            /\ disk[SpecMediaPath(p)] # Absent

\* C20: a media file that was on disk when the run started is not created
\* or truncated by the run and keeps its content.
C20_ExistingMediaUntouched ==
    \A p \in FavItems :
        disk0[SpecMediaPath(p)] # Absent =>
            /\ SpecMediaPath(p) \notin creates
            /\ disk[SpecMediaPath(p)] = disk0[SpecMediaPath(p)]

\* A finished run that downloaded an item and whose list also holds an item
\* with a URL whose media file was there from the start.
C20_Witness ==
    /\ pc = "done"
    /\ gets # {}
    /\ \E p \in FavsWithUrl :
          /\ disk0[SpecMediaPath(p)] # Absent
          /\ disk[SpecMediaPath(p)] = disk0[SpecMediaPath(p)]
    /\ \E q \in FavsWithUrl : SpecMediaPath(q) \in creates

====
